---- MODULE Spec2Model ----
(***************************************************************************)
(* The <stacked-alpha-video> custom element (src/src/StackedAlphaVideo.ts) *)
(* and the GL helpers it calls (src/unnamed/part_000), as a state machine. *)
(*                                                                         *)
(* The element runs on the browser's single script thread.  One step of    *)
(* the model is one callback run to completion: a custom-element reaction, *)
(* an observer callback, a media-event listener, a timer, the evaluation   *)
(* microtask queued by #updateState, or the animation-frame callback       *)
(* #frame.  The event loop drains the microtask queue before it runs the   *)
(* next task or animation-frame callback, so tasks and frame callbacks are *)
(* enabled only while no microtask is queued; synchronous callers          *)
(* (reactions, mutation records, dispatchEvent) may run while one is.      *)
(***************************************************************************)
EXTENDS Integers, FiniteSets, TLC

\* ---------------------------------------------------------------- bounds
NumVideos == 2      \* distinct <video> elements the page may insert
MaxTimers == 1      \* autoplay timers outstanding

\* -------------------------------------------------------------- elements
Null == 0
Videos == 1..NumVideos
NonVideoChild == NumVideos + 1          \* an element that is not a <video>
Children == Videos \cup {Null, NonVideoChild}

\* a type test that lets every element through
IsVideoElement_Any(e) == e # Null

\* newVideo instanceof HTMLVideoElement
IsVideoElement(e) == e \in Videos

\* readyState values on both sides of the `> 2` test of videoIsPlaying
ReadyStates == {2, 3}
\* what a <video> shows when it is read: every test of videoIsPlaying
\* passing, or one of them failing
VideoProps ==
  {p \in [paused : BOOLEAN, ended : BOOLEAN, readyState : ReadyStates] :
     Cardinality({t \in {"paused", "ended", "readyState"} :
                   \/ t = "paused" /\ p.paused
                   \/ t = "ended" /\ p.ended
                   \/ t = "readyState" /\ p.readyState <= 2}) <= 1}

\* intrinsic sizes a stacked video reports (odd and even heights)
VideoWidths == {2}
VideoHeights == {3, 4}

\* what is read off an element that is not a <video>: never used
NoProps == [paused |-> TRUE, ended |-> FALSE, readyState |-> 2]

\* a test that leaves out readyState
videoIsPlaying_AnyReadyState(v) == ~v.paused /\ ~v.ended

videoIsPlaying(v) == ~v.paused /\ ~v.ended /\ v.readyState > 2

\* a canvas fresh from document.createElement('canvas')
NewCanvas == [width |-> 300, height |-> 150, painted |-> FALSE]

\* What a callback did besides its writes to the fields: whether it set up
\* a GL context ("first", or "again" on replacing a canvas that was drawn
\* to), the argument of its own setPremultipliedAlpha call, and the video
\* properties it read, whether the video it bound had the autoplay attribute,
\* and whether it called play() on a video.
NoEffects == [setup |-> "none", alpha |-> "none", props |-> NoProps,
              autoplay |-> FALSE, play |-> FALSE]
AlphaArgument(premultipliedAlpha) ==
  IF premultipliedAlpha THEN "true" ELSE "false"

VARIABLES
  state,                     \* #state : {videoPlaying, intersecting, connected}
  pendingStateUpdate,        \* #pendingStateUpdate
  microtasks,                \* evaluation closures in the microtask queue
  frameHandle,               \* #frameHandle
  rafQueue,                  \* handles of outstanding requestAnimationFrame calls
  context,                   \* #context: "none" (null), "live", or "lost"
  uniform,                   \* u_premultipliedAlpha of the held context
  canvas,                    \* #canvas
  orphaned,                  \* a live GL context is no longer held in #context
  premultipliedalpha,        \* the premultipliedalpha attribute is present
  observed,                  \* the IntersectionObserver has notified once
  firstElementChild,         \* this.firstElementChild when last looked at
  video,                     \* #video
  videoListenersController,  \* #videoListenersController (0: null)
  listeners,                 \* registered, un-aborted media listeners
  timers,                    \* pending setTimeout(play) callbacks
  \* bookkeeping, never read by the element
  last,                      \* the callback that ran last
  warning,                   \* what that callback passed to console.warn
  effects,                   \* what else that callback did and read
  watched,                   \* what callbacks read off the video is kept in effects
  expected,                  \* per field of #state, the last value written
  severalUpdates,            \* the current or last tick called #updateState twice
  firedSinceEval,            \* #frame has run since the last evaluation
  firedWhilePaused,          \* #frame has run since #state last left Active-and-paused
  everFailed,                \* a GL context setup has failed
  gl                         \* a context driven through the GL helpers alone

element == <<state, pendingStateUpdate, microtasks, frameHandle, rafQueue,
          context, uniform, canvas, orphaned, premultipliedalpha, observed,
          firstElementChild, video,
          videoListenersController, listeners, timers, last, warning,
          effects, watched, expected, severalUpdates, firedSinceEval, firedWhilePaused,
          everFailed>>

vars == <<element, gl>>

\* ------------------------------------------------------- GL helpers
\* setPremultipliedAlpha: the value uniform1f stores
\* a setter that writes the opposite flag
setPremultipliedAlpha_Inverted(premultipliedAlpha) ==
  IF premultipliedAlpha THEN 0 ELSE 1

setPremultipliedAlpha(premultipliedAlpha) == IF premultipliedAlpha THEN 1 ELSE 0

\* What setupGLContext can do on a fresh canvas: return a context ("ok"),
\* throw because getContext returned null ("noContext"), or throw from
\* loadShader/createProgram after getContext made a context ("shaderError").
SetupOutcomes == {"ok", "noContext", "shaderError"}

\* a setup that hands back the context whose program failed to build
setupGLContext_Partial(outcome) ==
  [returned |-> IF outcome = "noContext" THEN "none" ELSE "live",
   uniform  |-> 0,
   orphan   |-> FALSE]

\* setupGLContext: what the caller receives, the premultiplied uniform it
\* leaves (setPremultipliedAlpha(context, false)), and whether it made a
\* context that it did not return
setupGLContext(outcome) ==
  [returned |-> IF outcome = "ok" THEN "live" ELSE "none",
   uniform  |-> setPremultipliedAlpha(FALSE),
   orphan   |-> outcome = "shaderError"]

\* a size check that always writes the size and the viewport
Resizes_Always(cv, width, height) == TRUE

\* `canvas.width !== width || canvas.height !== height` in drawVideo
Resizes(cv, width, height) == cv.width # width \/ cv.height # height

\* drawVideo: the canvas after the size check, the upload and drawArrays
drawVideo(cv, videoWidth, videoHeight) ==
  LET width == videoWidth
      height == videoHeight \div 2
  IN IF Resizes(cv, width, height)
       THEN [width |-> width, height |-> height, painted |-> TRUE]
       ELSE [cv EXCEPT !.painted = TRUE]

\* The fragment shader works on floats in 0.0 .. 1.0; here a channel value
\* is a whole number of tenths, and a product of two of them a whole number
\* of hundredths.
One == 10
Levels == {0, 2, 5, One}

\* GLSL mix with its first two arguments exchanged
Mix_Swapped(x, y, t) == y * (1 - t) + x * t

\* GLSL mix(x, y, t): x * (1 - t) + y * t
Mix(x, y, t) == x * (1 - t) + y * t

\* main() of the fragment shader for one output pixel: texel.color is a
\* colour channel sampled in the top half of the frame, texel.alpha the red
\* channel sampled in the bottom half; rgb comes out in hundredths.
Fragment(texel, u_premultipliedAlpha) ==
  [rgb   |-> texel.color * Mix(texel.alpha, One, u_premultipliedAlpha),
   alpha |-> texel.alpha]

\* A context used through the helpers alone, as setupGLContext leaves it on
\* a new canvas: the premultiplied uniform, the canvas, the helper called
\* last, whether setPremultipliedAlpha(context, true) was called since the
\* setup, and for the last drawVideo the video size, the canvas before the
\* call, whether it wrote the size and viewport, one sampled texel and the
\* pixel the shader made of it.
GLSetup ==
  [flag    |-> setupGLContext("ok").uniform,
   canvas  |-> NewCanvas,
   call    |-> "setupGLContext",
   flagged |-> FALSE,
   video   |-> [videoWidth |-> 0, videoHeight |-> 0],
   before  |-> NewCanvas,
   wrote   |-> FALSE,
   texel   |-> [color |-> 0, alpha |-> 0],
   pixel   |-> [rgb |-> 0, alpha |-> 0]]

\* context.getExtension('WEBGL_lose_context')?.loseContext()
LoseContext(ctx, extension) == IF extension THEN "lost" ELSE ctx

\* an assignment that keeps the reference
Forget_Keep(ctx) == ctx

\* `this.#context = null` after the loseContext call
Forget(ctx) == "none"

\* a live context the element stops referencing stays live until collected
Orphan(already, isLive) == already \/ isLive

\* ------------------------------------------------------- #updateState
StateFields == {"videoPlaying", "intersecting", "connected"}

\* a replacement of the record instead of a merge into it
ObjectAssign_Replace(target, source) ==
  [k \in DOMAIN target |-> IF k \in DOMAIN source THEN source[k] ELSE FALSE]

\* Object.assign(this.#state, newState)
ObjectAssign(target, source) ==
  [k \in DOMAIN target |-> IF k \in DOMAIN source THEN source[k] ELSE target[k]]

\* The synchronous part of #updateState on s = the fields it touches.
updateState(s, newState) ==
  LET merged == ObjectAssign(s.state, newState) IN
  IF s.pendingStateUpdate
    THEN [s EXCEPT !.state = merged]
    ELSE [s EXCEPT !.state = merged,
                   !.pendingStateUpdate = TRUE,
                   !.microtasks = @ + 1]

\* the decision without the intersection test
IsActive_ConnectedOnly(s) == s.connected

\* the decision of the earlier versions, which also test videoPlaying
IsActive_RequiresPlaying(s) == s.connected /\ s.intersecting /\ s.videoPlaying

\* The decision of the evaluation microtask: `!connected || !intersecting`
\* returns early, everything else requests a frame.
IsActive(s) == s.connected /\ s.intersecting

PausedActive(s) == IsActive(s) /\ ~s.videoPlaying

\* independent record of the last value written to each field
Written(exp, newState) ==
  [videoPlaying |-> IF "videoPlaying" \in DOMAIN newState
                      THEN newState.videoPlaying ELSE exp.videoPlaying,
   intersecting |-> IF "intersecting" \in DOMAIN newState
                      THEN newState.intersecting ELSE exp.intersecting,
   connected    |-> IF "connected" \in DOMAIN newState
                      THEN newState.connected ELSE exp.connected]

\* #updateState together with the bookkeeping of what was written
Update(s, newState) ==
  LET r == updateState(s, newState) IN
  [r EXCEPT !.expected = Written(s.expected, newState),
            !.severalUpdates = s.pendingStateUpdate,
            !.firedWhilePaused = PausedActive(r.state) /\ @]

\* ------------------------------------------------------- #videoChange
\* an abort that revokes nothing
Abort_Noop(ls, controller) == ls

\* AbortController.abort(): every listener registered with its signal goes
Abort(ls, controller) == {l \in ls : l.signal # controller}

\* new AbortController(): an identity no registered listener carries
NewController(ls) ==
  LET used == {l.signal : l \in ls} IN
  CHOOSE n \in 1..(Cardinality(used) + 1) :
    n \notin used /\ \A m \in 1..(n - 1) : m \in used

\* the autoplay handling of the earlier versions: newVideo.play() at once
Autoplay_Synchronous(autoplay) == [timers |-> 0, played |-> autoplay]

\* `if (newVideo.autoplay) setTimeout(() => newVideo.play(), 0)`: the
\* timers #videoChange sets and whether it has called play() when it returns
Autoplay(autoplay) ==
  [timers |-> IF autoplay THEN 1 ELSE 0, played |-> FALSE]

\* What a callback that read props, and on binding autoplay, off a <video>
\* leaves in effects: the readings where they are kept, and whether play()
\* was called before the callback returned.
Readings(kept, isVideo, props, autoplay, played) ==
  [NoEffects EXCEPT
     !.props = IF kept /\ isVideo THEN props ELSE NoProps,
     !.autoplay = kept /\ isVideo /\ autoplay,
     !.play = isVideo /\ played]

\* #videoChange(newVideo); props and autoplay are what newVideo shows when
\* it is read.
videoChange(s, newVideo, props, autoplay) ==
  LET a == [s EXCEPT !.listeners =
                       IF s.videoListenersController # Null
                         THEN Abort(@, s.videoListenersController) ELSE @]
  IN
  IF newVideo # Null /\ ~IsVideoElement(newVideo)
    THEN Update([a EXCEPT !.warning = "Child must be a <video>",
                          !.video = Null],
                [videoPlaying |-> FALSE])
  ELSE IF newVideo = Null
    THEN Update([a EXCEPT !.video = Null], [videoPlaying |-> FALSE])
  ELSE
    LET b == [a EXCEPT !.video = newVideo,
                       !.timers = @ + Autoplay(autoplay).timers]
        c == Update(b, [videoPlaying |-> videoIsPlaying(props)])
        controller == NewController(c.listeners)
    IN [c EXCEPT !.videoListenersController = controller,
                 !.listeners = @ \cup {[video |-> newVideo,
                                        signal |-> controller]}]

\* ------------------------------------------------------- the element
\* the fields #updateState and #videoChange read and write
Self ==
  [state |-> state, pendingStateUpdate |-> pendingStateUpdate,
   microtasks |-> microtasks, video |-> video,
   videoListenersController |-> videoListenersController,
   listeners |-> listeners, timers |-> timers, warning |-> "",
   expected |-> expected, severalUpdates |-> severalUpdates,
   firedWhilePaused |-> firedWhilePaused]

Store(r) ==
  /\ state' = r.state
  /\ pendingStateUpdate' = r.pendingStateUpdate
  /\ microtasks' = r.microtasks
  /\ video' = r.video
  /\ videoListenersController' = r.videoListenersController
  /\ listeners' = r.listeners
  /\ timers' = r.timers
  /\ warning' = r.warning
  /\ expected' = r.expected
  /\ severalUpdates' = r.severalUpdates
  /\ firedWhilePaused' = r.firedWhilePaused

\* field initialisers of the class
Fields ==
  [state |-> [videoPlaying |-> FALSE, intersecting |-> FALSE,
              connected |-> FALSE],
   pendingStateUpdate |-> FALSE, microtasks |-> 0, video |-> Null,
   videoListenersController |-> Null,
   listeners |-> {}, timers |-> 0, warning |-> "",
   expected |-> [videoPlaying |-> FALSE, intersecting |-> FALSE,
                 connected |-> FALSE],
   severalUpdates |-> FALSE, firedWhilePaused |-> FALSE]

\* The state the constructor leaves: the field initialisers, then
\* #videoChange(this.firstElementChild) for whatever child the element has.
Constructed ==
  /\ \E c \in Children, p \in VideoProps, a \in BOOLEAN :
       LET r == videoChange(Fields, c, p, a) IN
       /\ state = r.state
       /\ pendingStateUpdate = r.pendingStateUpdate
       /\ microtasks = r.microtasks
       /\ video = r.video
       /\ videoListenersController = r.videoListenersController
       /\ listeners = r.listeners
       /\ timers = r.timers
       /\ warning = r.warning
       /\ expected = r.expected
       /\ severalUpdates = r.severalUpdates
       /\ firedWhilePaused = r.firedWhilePaused
       /\ firstElementChild = c
       /\ gl = GLSetup
       /\ effects = Readings(watched, IsVideoElement(c), p, a,
                             Autoplay(a).played)
  /\ frameHandle = 0
  /\ rafQueue = {}
  /\ context = "none"
  /\ uniform = 0
  /\ canvas = NewCanvas
  /\ orphaned = FALSE
  /\ premultipliedalpha \in BOOLEAN
  /\ observed = FALSE
  /\ last = "videoChange"
  /\ firedSinceEval = FALSE
  /\ everFailed = FALSE

Init == watched = FALSE /\ Constructed

GLUnchanged == UNCHANGED <<context, uniform, canvas, orphaned,
                           premultipliedalpha>>
ObserverUnchanged == UNCHANGED observed
VideoChangeLabels == {"videoChange", "videoChange: rebind",
                      "videoChange: unbind"}
FrameUnchanged == UNCHANGED <<frameHandle, rafQueue, firedSinceEval,
                              everFailed>>

\* connectedCallback
Connected ==
  /\ ~state.connected
  /\ Store(Update(Self, [connected |-> TRUE]))
  /\ UNCHANGED firstElementChild
  /\ last' = "update"
  /\ UNCHANGED <<gl, watched>>
  /\ effects' = NoEffects
  /\ GLUnchanged /\ FrameUnchanged /\ ObserverUnchanged

\* disconnectedCallback
Disconnected ==
  /\ state.connected
  /\ Store(Update(Self, [connected |-> FALSE]))
  /\ UNCHANGED firstElementChild
  /\ last' = "update"
  /\ UNCHANGED <<gl, watched>>
  /\ effects' = NoEffects
  /\ GLUnchanged /\ FrameUnchanged /\ ObserverUnchanged

\* the IntersectionObserver callback, a task of its own: the observer
\* notifies once after observe() and then whenever isIntersecting changes
Intersection(isIntersecting) ==
  /\ microtasks = 0
  /\ observed => isIntersecting # state.intersecting
  /\ observed' = TRUE
  /\ Store(Update(Self, [intersecting |-> isIntersecting]))
  /\ UNCHANGED firstElementChild
  /\ last' = "update"
  /\ UNCHANGED <<gl, watched>>
  /\ effects' = NoEffects
  /\ GLUnchanged /\ FrameUnchanged

\* the MutationObserver callback; child is this.firstElementChild, which
\* shows props and autoplay if it is a <video>
Mutation(child, props, autoplay) ==
  /\ child # video
  /\ IsVideoElement(child) /\ autoplay => timers < MaxTimers
  /\ Store(videoChange(Self, child, props, autoplay))
  /\ firstElementChild' = child
  /\ last' = IF video = Null THEN "videoChange"
             ELSE IF IsVideoElement(child) THEN "videoChange: rebind"
             ELSE "videoChange: unbind"
  /\ UNCHANGED <<gl, watched>>
  /\ effects' = Readings(watched, IsVideoElement(child), props, autoplay,
                         Autoplay(autoplay).played)
  /\ GLUnchanged /\ FrameUnchanged /\ ObserverUnchanged

\* videoUpdate, the listener of playing, stalled, emptied, ended and pause
\* on element v, which shows props when the event is dispatched
MediaEvent(v, props) ==
  /\ \E l \in listeners : l.video = v
  /\ Store(Update(Self, [videoPlaying |-> videoIsPlaying(props)]))
  /\ UNCHANGED firstElementChild
  /\ last' = "videoUpdate"
  /\ UNCHANGED <<gl, watched>>
  /\ effects' = Readings(watched, TRUE, props, FALSE, FALSE)
  /\ GLUnchanged /\ FrameUnchanged /\ ObserverUnchanged

\* the setTimeout callback of #videoChange: newVideo.play()
PlayTimer ==
  /\ microtasks = 0
  /\ timers > 0
  /\ timers' = timers - 1
  /\ last' = "play"
  /\ UNCHANGED <<gl, watched>>
  /\ effects' = [NoEffects EXCEPT !.play = TRUE]
  /\ warning' = ""
  /\ UNCHANGED <<state, pendingStateUpdate, microtasks, firstElementChild,
                 video, videoListenersController, listeners, expected,
                 severalUpdates, firedWhilePaused>>
  /\ GLUnchanged /\ FrameUnchanged /\ ObserverUnchanged

\* ------------------------------------------------------- frame requests
\* requestAnimationFrame: a handle that is neither outstanding nor stored
RequestAnimationFrame(queue, stored) ==
  CHOOSE n \in 1..(Cardinality(queue) + 2) :
    /\ n \notin queue \cup {stored}
    /\ \A m \in 1..(n - 1) : m \in queue \cup {stored}

\* a cancel that leaves the request outstanding
CancelAnimationFrame_Noop(queue, handle) == queue

CancelAnimationFrame(queue, handle) == queue \ {handle}

\* a frame callback that goes on without a video
HasVideo_Always(v) == TRUE

\* `if (!this.#video) return;` at the start of #frame
HasVideo(v) == v # Null

\* a getter that reports the attribute as absent
GetPremultipliedAlpha_Absent(hasAttribute) == FALSE

\* get premultipliedAlpha(): this.hasAttribute('premultipliedalpha')
GetPremultipliedAlpha(hasAttribute) == hasAttribute

\* a frame callback that never asks for another frame
FrameReschedules_Never(s) == FALSE

\* the frame callback of the earlier versions, which always asks for another
FrameReschedules_Always(s) == TRUE

\* `if (this.#state.videoPlaying)` at the end of #frame
FrameReschedules(s) == s.videoPlaying

BinderUnchanged == UNCHANGED <<observed, firstElementChild, video,
                               videoListenersController, listeners, timers>>

\* The microtask queued by #updateState; extension tells whether
\* getExtension('WEBGL_lose_context') returns the extension or null.
Evaluate(extension) ==
  /\ microtasks > 0
  /\ microtasks' = microtasks - 1
  /\ pendingStateUpdate' = FALSE
  /\ LET cancelled == CancelAnimationFrame(rafQueue, frameHandle) IN
     IF ~IsActive(state)
       THEN /\ rafQueue' = cancelled
            /\ frameHandle' = frameHandle
            /\ IF context # "none"
                 THEN /\ context' = Forget(LoseContext(context, extension))
                      /\ uniform' = 0
                      /\ orphaned' = Orphan(orphaned,
                             LoseContext(context, extension) = "live")
                 ELSE UNCHANGED <<context, uniform, orphaned>>
       ELSE LET handle == RequestAnimationFrame(cancelled, frameHandle) IN
            /\ frameHandle' = handle
            /\ rafQueue' = cancelled \cup {handle}
            /\ UNCHANGED <<context, uniform, orphaned>>
  /\ firedSinceEval' = FALSE
  /\ last' = "evaluate"
  /\ UNCHANGED <<gl, watched>>
  /\ effects' = NoEffects
  /\ warning' = ""
  /\ UNCHANGED <<state, canvas, premultipliedalpha, expected, severalUpdates,
                 firedWhilePaused, everFailed>>
  /\ BinderUnchanged

\* #frame, run by the browser for one outstanding request; the video
\* reports videoWidth x videoHeight, and a context setup, if one is made,
\* ends as `outcome`.
Frame(videoWidth, videoHeight, outcome) ==
  /\ microtasks = 0
  /\ rafQueue # {}
  /\ firedSinceEval' = TRUE
  /\ firedWhilePaused' = (firedWhilePaused \/ PausedActive(state))
  /\ \E handle \in rafQueue :
     LET fired == rafQueue \ {handle}
         setup == setupGLContext(outcome)
         ctx == IF context = "none" THEN setup.returned ELSE context
         next == RequestAnimationFrame(fired, frameHandle)
         failed == context = "none" /\ outcome # "ok"
     IN
     /\ last' = IF video = Null THEN "frame: no video"
                ELSE IF failed THEN "frame: setup failed"
                ELSE "frame: drew"
     /\ everFailed' = (everFailed \/ (video # Null /\ failed))
     /\ UNCHANGED <<gl, watched>>
     /\ effects' =
          IF video # Null /\ context = "none" /\ ctx # "none"
            THEN [NoEffects EXCEPT
                    !.setup = IF canvas.painted THEN "again" ELSE "first",
                    !.alpha = AlphaArgument(premultipliedalpha)]
            ELSE NoEffects
     /\ IF ~HasVideo(video)
          THEN /\ warning' = ""
               /\ rafQueue' = fired
               /\ UNCHANGED <<frameHandle, context, uniform, canvas, orphaned>>
        ELSE IF ctx = "none"
          THEN /\ warning' = "Couldn't create GL context"
               /\ rafQueue' = fired
               /\ canvas' = NewCanvas
               /\ orphaned' = Orphan(orphaned, setup.orphan)
               /\ UNCHANGED <<frameHandle, context, uniform>>
        ELSE /\ warning' = ""
             /\ context' = ctx
             /\ uniform' = IF context = "none"
                             THEN setPremultipliedAlpha(
                                    GetPremultipliedAlpha(premultipliedalpha))
                             ELSE uniform
             /\ canvas' = drawVideo(IF context = "none" THEN NewCanvas
                                    ELSE canvas, videoWidth, videoHeight)
             /\ orphaned' = IF context = "none"
                              THEN Orphan(orphaned, setup.orphan)
                              ELSE orphaned
             /\ IF FrameReschedules(state)
                  THEN /\ frameHandle' = next
                       /\ rafQueue' = fired \cup {next}
                  ELSE /\ frameHandle' = frameHandle
                       /\ rafQueue' = fired
  /\ UNCHANGED <<state, pendingStateUpdate, microtasks, premultipliedalpha,
                 expected, severalUpdates>>
  /\ BinderUnchanged

\* attributeChangedCallback('premultipliedalpha', _, newValue);
\* present is newValue !== null
AttributeChanged(present) ==
  /\ premultipliedalpha' = present
  /\ uniform' = IF context # "none" THEN setPremultipliedAlpha(present)
                ELSE uniform
  /\ last' = "attributeChangedCallback"
  /\ UNCHANGED <<gl, watched>>
  /\ effects' = [NoEffects EXCEPT
                   !.alpha = IF context # "none" THEN AlphaArgument(present)
                             ELSE "none"]
  /\ warning' = ""
  /\ UNCHANGED <<state, pendingStateUpdate, microtasks, context, canvas,
                 orphaned, expected, severalUpdates, firedWhilePaused>>
  /\ BinderUnchanged /\ FrameUnchanged

\* the collector reclaims the contexts nothing references
GarbageCollect ==
  /\ orphaned
  /\ orphaned' = FALSE
  /\ last' = "collected"
  /\ UNCHANGED <<gl, watched>>
  /\ effects' = NoEffects
  /\ warning' = ""
  /\ UNCHANGED <<state, pendingStateUpdate, microtasks, context, uniform,
                 canvas, premultipliedalpha, expected, severalUpdates,
                 firedWhilePaused>>
  /\ BinderUnchanged /\ FrameUnchanged

\* ------------------------------------------------ the helpers on their own
\* the video sizes and texels a draw is given
GLWidths == {0, 2}
GLHeights == {0, 3, 4}
Texels == [color : Levels, alpha : Levels]

\* setupGLContext(canvas) on a new canvas
GLSetupContext ==
  /\ gl.call # "setupGLContext"
  /\ gl' = GLSetup
  /\ UNCHANGED element

\* setPremultipliedAlpha(context, premultipliedAlpha)
GLSetPremultipliedAlpha(premultipliedAlpha) ==
  /\ gl' = [gl EXCEPT !.flag = setPremultipliedAlpha(premultipliedAlpha),
                      !.call = "setPremultipliedAlpha",
                      !.flagged = gl.flagged \/ premultipliedAlpha]
  /\ UNCHANGED element

\* drawVideo(context, video) for a video of videoWidth x videoHeight, and
\* what the shader makes of one texel of the uploaded frame
GLDrawVideo(videoWidth, videoHeight, texel) ==
  /\ gl' = [gl EXCEPT
              !.canvas = drawVideo(gl.canvas, videoWidth, videoHeight),
              !.call = "drawVideo",
              !.video = [videoWidth |-> videoWidth,
                         videoHeight |-> videoHeight],
              !.before = gl.canvas,
              !.wrote = Resizes(gl.canvas, videoWidth, videoHeight \div 2),
              !.texel = texel,
              !.pixel = Fragment(texel, gl.flag)]
  /\ UNCHANGED element

\* ------------------------------------------------ the binder watched
\* The callbacks that bind the video, follow its media events and play it,
\* with the evaluation their updates queue, on an element that is attached
\* and detached but never scrolled into view; what they read off the video
\* is kept.
InitBinder == watched = TRUE /\ Constructed

NextBinder ==
  \/ Connected
  \/ Disconnected
  \/ \E c \in Videos, p \in VideoProps, a \in BOOLEAN : Mutation(c, p, a)
  \/ \E c \in Children \ Videos : Mutation(c, NoProps, FALSE)
  \/ \E v \in Videos, p \in VideoProps : MediaEvent(v, p)
  \/ PlayTimer
  \/ \E e \in BOOLEAN : Evaluate(e)

SpecBinder == InitBinder /\ [][NextBinder]_vars

InitGL ==
  /\ Init
  /\ firstElementChild = Null
  /\ ~premultipliedalpha

NextGL ==
  \/ GLSetupContext
  \/ \E b \in BOOLEAN : GLSetPremultipliedAlpha(b)
  \/ \E w \in GLWidths, h \in GLHeights, t \in Texels : GLDrawVideo(w, h, t)

SpecGL == InitGL /\ [][NextGL]_vars

Next ==
  \/ Connected
  \/ Disconnected
  \/ \E b \in BOOLEAN : Intersection(b)
  \/ \E c \in Videos, p \in VideoProps, a \in BOOLEAN : Mutation(c, p, a)
  \/ \E c \in Children \ Videos : Mutation(c, NoProps, FALSE)
  \/ \E v \in Videos, p \in VideoProps : MediaEvent(v, p)
  \/ PlayTimer
  \/ \E b \in BOOLEAN : AttributeChanged(b)
  \/ \E e \in BOOLEAN : Evaluate(e)
  \/ \E w \in VideoWidths, h \in VideoHeights, o \in SetupOutcomes :
       Frame(w, h, o)
  \/ GarbageCollect

Spec == Init /\ [][Next]_vars

TypeOK ==
  /\ state \in [StateFields -> BOOLEAN]
  /\ pendingStateUpdate \in BOOLEAN
  /\ microtasks \in Nat
  /\ context \in {"none", "live", "lost"}
  /\ uniform \in {0, 1}
  /\ orphaned \in BOOLEAN
  /\ video \in Videos \cup {Null}
  /\ firstElementChild \in Children
  /\ watched \in BOOLEAN
  /\ effects \in [setup : {"none", "first", "again"},
                  alpha : {"none", "true", "false"},
                  props : VideoProps \cup {NoProps},
                  autoplay : BOOLEAN, play : BOOLEAN]
  /\ gl.flag \in {0, 1}
  /\ gl.call \in {"setupGLContext", "setPremultipliedAlpha", "drawVideo"}
  /\ gl.texel \in Texels

\* ------------------------------------------------------------ claims
FrameLabels == {"frame: no video", "frame: setup failed", "frame: drew"}
\* live contexts of the element that can be told apart
LiveContexts ==
  (IF orphaned THEN 1 ELSE 0) + (IF context = "live" THEN 1 ELSE 0)

\* C1: however many #updateState calls a tick makes, exactly one evaluation
\* microtask is queued for it, never two, and the #state it reads holds the
\* last value written to each field.
C1_OneEvaluationOfMergedState ==
  /\ microtasks = (IF pendingStateUpdate THEN 1 ELSE 0)
  /\ state = expected
  /\ last = "evaluate" => ~pendingStateUpdate

\* an evaluation that covered several calls, two of which flipped
\* intersecting and connected
C1_Witness ==
  /\ last = "evaluate"
  /\ severalUpdates
  /\ state.connected /\ state.intersecting

\* C2: a frame callback draws only while connected and intersecting hold,
\* and only into a context the element holds.
C2_DrawOnlyWhileActive ==
  last = "frame: drew" =>
    /\ state.connected /\ state.intersecting
    /\ context # "none"
    /\ canvas.painted

C2_Witness ==
  /\ last = "frame: drew"
  /\ canvas.painted
  /\ context = "live"
  /\ state.connected /\ state.intersecting

\* C3: at most one GL context of the element is live (created and not torn
\* down) at any time.
C3_AtMostOneLiveContext == LiveContexts <= 1

\* C4: at most one frame request is outstanding, and it is the one whose
\* handle the element stores.
C4_OneOutstandingFrame ==
  /\ Cardinality(rafQueue) <= 1
  /\ rafQueue \subseteq {frameHandle}

\* a frame callback that fired and left its own, single new request
C4_Witness ==
  /\ last = "frame: drew"
  /\ Cardinality(rafQueue) = 1
  /\ firedSinceEval

\* C5 as claimed: while Active and playing, every frame callback that runs
\* requests another one.
C5_EveryFrameReschedules ==
  (/\ last \in FrameLabels
   /\ state.connected /\ state.intersecting /\ state.videoPlaying)
    => rafQueue # {}

\* C5 as amended: while Active and playing, every frame callback that runs
\* requests another one unless GL context setup failed in that callback.
C5_FrameReschedulesUnlessSetupFailed ==
  (/\ last \in FrameLabels
   /\ last # "frame: setup failed"
   /\ state.connected /\ state.intersecting /\ state.videoPlaying)
    => rafQueue = {frameHandle} /\ frameHandle # 0

C5_Witness ==
  /\ last = "frame: drew"
  /\ state.connected /\ state.intersecting /\ state.videoPlaying
  /\ rafQueue # {}

\* C6 as claimed: while Active and not playing, once a frame callback has
\* fired no frame request is outstanding until the state leaves
\* Active-and-paused and enters it again.
C6_OneFramePerActiveEntry ==
  (/\ state.connected /\ state.intersecting /\ ~state.videoPlaying
   /\ firedWhilePaused)
    => rafQueue = {}

\* C6 as amended: while Active and not playing, every evaluation requests
\* one frame, its callback requests none, and no request is outstanding from
\* then until the next evaluation.
C6_OneFramePerEvaluation ==
  (/\ ~pendingStateUpdate
   /\ state.connected /\ state.intersecting /\ ~state.videoPlaying)
    => IF firedSinceEval THEN rafQueue = {}
       ELSE rafQueue = {frameHandle} /\ frameHandle # 0

C6_Witness ==
  /\ last = "frame: drew"
  /\ ~pendingStateUpdate
  /\ state.connected /\ state.intersecting /\ ~state.videoPlaying
  /\ firedSinceEval
  /\ rafQueue = {}

\* C7: what an evaluation does depends on connected and intersecting alone:
\* it leaves one frame request exactly when both hold, whatever videoPlaying
\* is, and otherwise leaves no request and no context.
C7_DecisionIgnoresVideoPlaying ==
  last = "evaluate" =>
    IF state.connected /\ state.intersecting
      THEN Cardinality(rafQueue) = 1
      ELSE rafQueue = {} /\ context = "none"

\* an evaluation that requested a frame although the video is not playing
C7_Witness ==
  /\ last = "evaluate"
  /\ state.connected /\ state.intersecting /\ ~state.videoPlaying
  /\ Cardinality(rafQueue) = 1

\* C8: the only registered media listeners are those of the current binding:
\* at most one binding has listeners, on the current #video with the current
\* controller, and none when no video is bound.
C8_OnlyCurrentBindingListens ==
  /\ Cardinality(listeners) <= 1
  /\ \A l \in listeners :
       l.video = video /\ l.signal = videoListenersController
  /\ video = Null => listeners = {}

\* a bound video was replaced by another video
C8_Witness ==
  /\ last = "videoChange: rebind"
  /\ video # Null
  /\ listeners = {[video |-> video, signal |-> videoListenersController]}

\* C9: after #videoChange with a child that is not a <video>, or with no
\* child, no video is bound, no listener is registered, videoPlaying is false
\* and the evaluation is scheduled; the warning is given for the non-video
\* child only.
C9_InvalidOrAbsentChild ==
  (last \in VideoChangeLabels /\ firstElementChild \notin Videos) =>
    /\ video = Null
    /\ listeners = {}
    /\ ~state.videoPlaying
    /\ pendingStateUpdate /\ microtasks = 1
    /\ warning = (IF firstElementChild = NonVideoChild
                    THEN "Child must be a <video>" ELSE "")

\* a bound video was replaced by an element that is not a <video>
C9_Witness ==
  /\ last = "videoChange: unbind"
  /\ firstElementChild = NonVideoChild
  /\ warning = "Child must be a <video>"
  /\ video = Null

\* C10: a frame callback whose context setup fails warns, draws nothing and
\* holds no context; after such a failure #updateState still queues exactly
\* one evaluation, and that evaluation still requests a frame exactly when
\* connected and intersecting hold and otherwise leaves no request and no
\* context.
C10_SetupFailureIsNotFatal ==
  /\ last = "frame: setup failed" =>
       /\ context = "none"
       /\ ~canvas.painted
       /\ warning = "Couldn't create GL context"
  /\ everFailed =>
       /\ microtasks = (IF pendingStateUpdate THEN 1 ELSE 0)
       /\ last = "evaluate" =>
            IF state.connected /\ state.intersecting
              THEN rafQueue = {frameHandle} /\ frameHandle # 0
              ELSE rafQueue = {} /\ context = "none"

\* after a failed setup, an update was evaluated and requested a new frame
C10_Witness ==
  /\ everFailed
  /\ last = "evaluate"
  /\ context = "none"
  /\ rafQueue # {}

\* C11 as claimed: every attributeChangedCallback for premultipliedalpha
\* calls setPremultipliedAlpha with the new value.
C11_EveryChangeCallsSetter ==
  last = "attributeChangedCallback" =>
    effects.alpha = (IF premultipliedalpha THEN "true" ELSE "false")

\* C11 as amended: the callback calls setPremultipliedAlpha with the new
\* value, which the held context then carries, when the element holds a
\* context; it calls nothing when it holds none.
C11_ChangeCallsSetterOnHeldContext ==
  last = "attributeChangedCallback" =>
    IF context # "none"
      THEN /\ effects.alpha = (IF premultipliedalpha THEN "true" ELSE "false")
           /\ uniform = (IF premultipliedalpha THEN 1 ELSE 0)
      ELSE effects.alpha = "none"

\* the attribute was added while a context is held
C11_Witness ==
  /\ last = "attributeChangedCallback"
  /\ context = "live"
  /\ premultipliedalpha
  /\ effects.alpha = "true"
  /\ uniform = 1

\* C12: the fragment shader outputs the sampled alpha as alpha, and as RGB
\* the sampled colour itself when the premultiplied flag is 1 and the colour
\* times the alpha when it is 0 (rgb is in hundredths, the inputs in
\* tenths); the flag is 0 or 1, and 0 from setupGLContext until
\* setPremultipliedAlpha(context, true) is called.
C12_ShaderMultipliesUnlessPremultiplied ==
  /\ gl.flag \in {0, 1}
  /\ ~gl.flagged => gl.flag = 0
  /\ gl.call = "drawVideo" =>
       /\ gl.pixel.alpha = gl.texel.alpha
       /\ gl.pixel.rgb = IF gl.flag = 1 THEN gl.texel.color * 10
                         ELSE gl.texel.color * gl.texel.alpha

\* colour 0.2 and alpha 0.5 drawn with the flag set come out as colour 0.2
C12_Witness ==
  /\ gl.call = "drawVideo"
  /\ gl.flagged
  /\ gl.flag = 1
  /\ gl.texel = [color |-> 2, alpha |-> 5]
  /\ gl.pixel = [rgb |-> 20, alpha |-> 5]

\* C13: after a drawVideo call the canvas is videoWidth wide and
\* floor(videoHeight / 2) high, and the call wrote the canvas size and the
\* viewport exactly when that size differed from the size the canvas had.
C13_CanvasMatchesVideoAndResizesOnChange ==
  gl.call = "drawVideo" =>
    /\ gl.canvas.width = gl.video.videoWidth
    /\ gl.canvas.height = gl.video.videoHeight \div 2
    /\ gl.wrote <=> ( \/ gl.before.width # gl.video.videoWidth
                      \/ gl.before.height # gl.video.videoHeight \div 2 )

\* a second draw of a 2 x 3 video leaves the 2 x 1 canvas size unwritten
C13_Witness ==
  /\ gl.call = "drawVideo"
  /\ gl.video = [videoWidth |-> 2, videoHeight |-> 3]
  /\ gl.before.width = 2 /\ gl.before.height = 1
  /\ gl.canvas.width = 2 /\ gl.canvas.height = 1
  /\ ~gl.wrote

\* C14: an evaluation that reads a state that is not connected and
\* intersecting ends with no frame request outstanding and no GL context
\* held.
C14_IdleEvaluationReleasesEverything ==
  (last = "evaluate" /\ ~(state.connected /\ state.intersecting)) =>
    /\ rafQueue = {}
    /\ context = "none"

\* an Idle evaluation that let go of a context which had drawn
C14_Witness ==
  /\ last = "evaluate"
  /\ ~(state.connected /\ state.intersecting)
  /\ canvas.painted
  /\ context = "none"
  /\ rafQueue = {}

\* C15: an evaluation that reads a connected and intersecting state leaves
\* the GL context, its uniform and the canvas as they were and leaves exactly
\* one frame request outstanding; and the element comes to hold a context
\* only in a frame callback.
C15_ActiveEvaluationKeepsContext ==
  [][ /\ (last' = "evaluate" /\ state'.connected /\ state'.intersecting) =>
           /\ context' = context
           /\ uniform' = uniform
           /\ canvas' = canvas
           /\ Cardinality(rafQueue') = 1
      /\ (context = "none" /\ context' # "none") => last' \in FrameLabels
    ]_vars

\* an Active evaluation made while a context is held
C15_Witness ==
  /\ last = "evaluate"
  /\ state.connected /\ state.intersecting
  /\ context = "live"
  /\ canvas.painted
  /\ Cardinality(rafQueue) = 1

\* C16: a frame callback that finds no bound video changes nothing: the
\* context, its uniform and the canvas stay as they were, no context is made
\* or dropped, and no frame is requested.
C16_FrameWithoutVideoIsNoop ==
  [][ last' = "frame: no video" =>
        /\ context' = context
        /\ uniform' = uniform
        /\ canvas' = canvas
        /\ orphaned' = orphaned
        /\ frameHandle' = frameHandle
        /\ rafQueue' \subseteq rafQueue
        /\ effects' = NoEffects
    ]_vars

\* a frame callback that ran without a video while connected and on screen
C16_Witness ==
  /\ last = "frame: no video"
  /\ video = Null
  /\ state.connected /\ state.intersecting
  /\ context = "none"
  /\ rafQueue = {}

\* C17: a frame callback that drew did so with a context that is live: one
\* the element made after its last teardown and has not let go of.
C17_DrawsUseLiveContext ==
  last = "frame: drew" => context = "live"

\* a draw with a context made after an earlier one was torn down
C17_Witness ==
  /\ last = "frame: drew"
  /\ effects.setup = "again"
  /\ context = "live"

\* C18 as claimed: in every state a held context implies connected and
\* intersecting.
C18_ContextOnlyWhileActive ==
  context # "none" => (state.connected /\ state.intersecting)

\* C18 as amended: a held context implies connected and intersecting in
\* every state in which no evaluation is pending.
C18_ContextOnlyWhileActiveOnceEvaluated ==
  (context # "none" /\ ~pendingStateUpdate) =>
    (state.connected /\ state.intersecting)

\* a context held, with no evaluation pending
C18_Witness ==
  /\ context = "live"
  /\ ~pendingStateUpdate
  /\ state.connected /\ state.intersecting

\* C19: the premultiplied uniform of a held context equals the current
\* value of the premultipliedalpha attribute.
C19_UniformFollowsAttribute ==
  context # "none" => uniform = (IF premultipliedalpha THEN 1 ELSE 0)

\* a context made while the attribute was present
C19_Witness ==
  /\ last = "frame: drew"
  /\ effects.setup # "none"
  /\ context = "live"
  /\ premultipliedalpha
  /\ uniform = 1

\* C20: right after a video is bound, and after each media event of the
\* bound video, #state.videoPlaying is (not paused, not ended, readyState
\* above 2) as read off that video in that callback.
C20_VideoPlayingIsThePredicate ==
  (last \in {"videoChange", "videoChange: rebind", "videoUpdate"}
     /\ video # Null) =>
    state.videoPlaying = ( /\ ~effects.props.paused
                           /\ ~effects.props.ended
                           /\ effects.props.readyState > 2 )

\* a media event of a video that is not paused and has not ended, but has
\* too little data
C20_Witness ==
  /\ last = "videoUpdate"
  /\ video # Null
  /\ effects.props = [paused |-> FALSE, ended |-> FALSE, readyState |-> 2]
  /\ ~state.videoPlaying

\* C21: #state changes only in #updateState: a step that changes it is one
\* of the callbacks that call #updateState; the evaluation microtask, the
\* frame callback and every other callback leave it as it was; each update
\* leaves the fields it does not supply untouched (a media or child update
\* supplies videoPlaying only, the other updates one of connected and
\* intersecting), and the fields hold the values last supplied.
C21_StateChangesOnlyInUpdate ==
  [][ /\ state' # state =>
           last' \in {"update", "videoUpdate"} \cup VideoChangeLabels
      /\ last' \in {"videoUpdate"} \cup VideoChangeLabels =>
           /\ state'.connected = state.connected
           /\ state'.intersecting = state.intersecting
      /\ last' = "update" =>
           /\ state'.videoPlaying = state.videoPlaying
           /\ \/ state'.connected = state.connected
              \/ state'.intersecting = state.intersecting
      /\ state' = expected'
    ]_vars

\* an update of one field made while the two others were true
C21_Witness ==
  /\ last = "update"
  /\ state.connected /\ state.intersecting /\ state.videoPlaying
  /\ pendingStateUpdate

\* C22: play() is called only by the timer callback, never by the callback
\* that binds the video; binding a video with the autoplay attribute sets
\* exactly one timer, binding one without it or unbinding sets none, each
\* timer callback is one timer's single play() call, and nothing else sets
\* or clears a timer.
C22_AutoplayIsOneDeferredPlay ==
  /\ [](effects.play => last = "play")
  /\ [](effects.autoplay => (video # Null /\ timers > 0))
  /\ [][ /\ (last' \in VideoChangeLabels /\ video' # video) =>
              timers' = timers + (IF effects'.autoplay THEN 1 ELSE 0)
         /\ last' = "play" => (timers' = timers - 1 /\ effects'.play)
         /\ timers' # timers => last' \in VideoChangeLabels \cup {"play"}
       ]_vars

\* an autoplay video was bound: its play() is pending, not yet called, and
\* the listeners and the videoPlaying update are already in place
C22_Witness ==
  /\ last = "videoChange: rebind"
  /\ effects.autoplay
  /\ ~effects.play
  /\ timers = 1
  /\ \E l \in listeners : l.video = video
  /\ pendingStateUpdate

\* C23: after a frame callback whose GL context setup failed no frame
\* request is outstanding and no context is held, whatever #state is; from no
\* outstanding request, only the evaluation microtask makes one, and only a
\* callback that calls #updateState queues that microtask: the setup is tried
\* again only in a frame requested by an evaluation of a later update.
C23_NoFrameAfterFailedSetup ==
  /\ [](last = "frame: setup failed" => (rafQueue = {} /\ context = "none"))
  /\ [][ /\ (rafQueue = {} /\ rafQueue' # {}) => last' = "evaluate"
         /\ microtasks' > microtasks =>
              last' \in {"update", "videoUpdate"} \cup VideoChangeLabels
       ]_vars

\* a setup that failed while connected, intersecting and playing
C23_Witness ==
  /\ last = "frame: setup failed"
  /\ state.connected /\ state.intersecting /\ state.videoPlaying
  /\ ~pendingStateUpdate
  /\ rafQueue = {}
  /\ context = "none"

====
